---- MODULE Spec2Model ----
(***************************************************************************)
(* Model of the unix-time converter (dateToUnixTime and its two resolvers, *)
(* dateToUnixTimeFromObject, unixTimeToIso) together with the parts of the *)
(* JavaScript host the code calls: Date.UTC, Date parsing of the composed  *)
(* string, Date.prototype.getTime and toISOString, Intl.DateTimeFormat and *)
(* formatToParts.                                                          *)
(*                                                                         *)
(* Strings the code inspects or composes character by character (the       *)
(* timezone designator, the ISO string) are sequences of one-character     *)
(* strings.  Time values are JavaScript numbers; they exceed 32 bits, so a *)
(* time value is kept as two limbs, hi * msPerDay + lo with                *)
(* 0 <= lo < msPerDay, or NaN.                                             *)
(***************************************************************************)
EXTENDS Integers, Sequences, FiniteSets, TLC

VARIABLES
    input,      \* the DateTimeInput / the positional arguments of the call
    host,       \* the JavaScript host the library runs on
    called,     \* which exported function has run: "none" before the call
    result,     \* what the call returned or threw
    unixTime,   \* the argument of unixTimeToIso
    iso         \* what unixTimeToIso returned or threw

vars == <<input, host, called, result, unixTime, iso>>

-----------------------------------------------------------------------------
(* JavaScript numbers that hold time values *)

msPerDay == 86400000

NaN == [nan |-> TRUE, hi |-> 0, lo |-> 0]

\* hi * msPerDay + lo, brought to 0 <= lo < msPerDay
Num(hi, lo) == [nan |-> FALSE, hi |-> hi + (lo \div msPerDay), lo |-> lo % msPerDay]

Add(a, b) == IF a.nan \/ b.nan THEN NaN ELSE Num(a.hi + b.hi, a.lo + b.lo)

Sub(a, b) == IF a.nan \/ b.nan THEN NaN ELSE Num(a.hi - b.hi, a.lo - b.lo)

Less(a, b) == a.hi < b.hi \/ (a.hi = b.hi /\ a.lo < b.lo)

\* the division forgotten
FloorDiv1000_NoDivision(a) == a

\* Math.floor(x / 1000); msPerDay = 1000 * 86400, so the division is exact
\* on the high limb once it is split as 1000 * q + r
FloorDiv1000(a) ==
    IF a.nan THEN NaN
    ELSE [nan |-> FALSE,
          hi |-> a.hi \div 1000,
          lo |-> (a.hi % 1000) * 86400 + (a.lo \div 1000)]

\* x * 1000
Times1000(a) ==
    IF a.nan THEN NaN
    ELSE [nan |-> FALSE,
          hi |-> a.hi * 1000 + (a.lo \div 86400),
          lo |-> (a.lo % 86400) * 1000]

\* TimeClip: a time value is finite and at most 8.64e15 ms from the epoch
TimeClip(a) ==
    IF a.nan THEN NaN
    ELSE IF a.hi < -100000000 \/ a.hi > 100000000 THEN NaN
    ELSE IF a.hi = 100000000 /\ a.lo > 0 THEN NaN
    ELSE a

-----------------------------------------------------------------------------
(* The calendar of ECMAScript time values (proleptic Gregorian) *)

IsLeapYear(y) == (y % 4 = 0 /\ y % 100 # 0) \/ y % 400 = 0

DaysInMonth(y, m) ==
    IF m = 2 THEN (IF IsLeapYear(y) THEN 29 ELSE 28)
    ELSE IF m \in {4, 6, 9, 11} THEN 30
    ELSE 31

\* DayFromYear of ECMAScript: the day number of January 1st of year y
DayFromYear(y) ==
    365 * (y - 1970) + ((y - 1969) \div 4) - ((y - 1901) \div 100)
        + ((y - 1601) \div 400)

\* days from January 1st to the first of month index mi (0 = January)
DaysBeforeMonth(y, mi) ==
    LET cum == <<0, 31, 59, 90, 120, 151, 181, 212, 243, 273, 304, 334>>
    IN  cum[mi + 1] + (IF mi >= 2 /\ IsLeapYear(y) THEN 1 ELSE 0)

\* MakeDay(year, month index, date): a month index outside 0..11 carries
\* into the year, a date outside the month carries into the next months
MakeDay(y, mi, dt) ==
    LET ym == y + (mi \div 12)
        mn == mi % 12
    IN  DayFromYear(ym) + DaysBeforeMonth(ym, mn) + dt - 1

\* MakeTime(hour, min, sec, 0) in milliseconds
MakeTime(h, mi, s) == h * 3600000 + mi * 60000 + s * 1000

\* Date.UTC(year, monthIndex, day, hours, minutes, seconds): years 0..99
\* mean 1900..1999
DateUTC(y, mi, dt, h, mn, s) ==
    LET yr == IF y >= 0 /\ y <= 99 THEN 1900 + y ELSE y
    IN  TimeClip(Num(MakeDay(yr, mi, dt), MakeTime(h, mn, s)))

\* the civil date of a day number (YearFromTime, MonthFromTime,
\* DateFromTime), by 400-year eras that begin on March 1st: doe is the day of
\* the era, yoe the year of the era, doy the day of the year from March 1st,
\* mp the month counted from March
CivilFromMp(y, doy, mp) ==
    [year |-> y + (IF mp < 10 THEN 0 ELSE 1),
     month |-> IF mp < 10 THEN mp + 3 ELSE mp - 9,
     day |-> doy - ((153 * mp + 2) \div 5) + 1]

CivilFromDoy(y, doy) == CivilFromMp(y, doy, (5 * doy + 2) \div 153)

CivilFromYoe(era, doe, yoe) ==
    CivilFromDoy(yoe + era * 400,
                 doe - (365 * yoe + (yoe \div 4) - (yoe \div 100)))

CivilFromDoe(era, doe) ==
    CivilFromYoe(era, doe,
                 (doe - (doe \div 1460) + (doe \div 36524) - (doe \div 146096)) \div 365)

CivilFromDay(dayNo) ==
    CivilFromDoe((dayNo + 719468) \div 146097, (dayNo + 719468) % 146097)

\* the weekday of a day number, 0 = Sunday (1970-01-01 was a Thursday)
WeekDay(dayNo) == (dayNo + 4) % 7

\* the civil fields of a date and a second of the day
FieldsOf(c, sod) ==
    [year |-> c.year, month |-> c.month, day |-> c.day,
     hour |-> sod \div 3600, minute |-> (sod % 3600) \div 60,
     second |-> sod % 60]

FieldsOfLocal(loc) == FieldsOf(CivilFromDay(loc.hi), loc.lo \div 1000)

\* the civil fields a time value shows at a UTC offset of offSec seconds
FieldsAt(t, offSec) == FieldsOfLocal(Num(t.hi, t.lo + offSec * 1000))

-----------------------------------------------------------------------------
(* Strings: sequences of one-character strings *)

Digits == <<"0", "1", "2", "3", "4", "5", "6", "7", "8", "9">>

IsDigit(c) == \E i \in 1..10 : Digits[i] = c

DigitVal(c) == (CHOOSE i \in 1..10 : Digits[i] = c) - 1

AllDigits(s) == \A i \in 1..Len(s) : IsDigit(s[i])

RECURSIVE NatToString(_)
NatToString(n) ==
    IF n < 10 THEN <<Digits[n + 1]>>
    ELSE NatToString(n \div 10) \o <<Digits[(n % 10) + 1]>>

\* String(n) and `${n}` of an integer
NumberToString(n) == IF n < 0 THEN <<"-">> \o NatToString(-n) ELSE NatToString(n)

\* s.padStart(2, '0')
padStart2(s) ==
    IF Len(s) >= 2 THEN s
    ELSE IF Len(s) = 1 THEN <<"0">> \o s
    ELSE <<"0", "0">>

\* the value of a string of decimal digits
RECURSIVE DigitsValue(_)
DigitsValue(s) ==
    IF s = <<>> THEN 0
    ELSE 10 * DigitsValue(SubSeq(s, 1, Len(s) - 1)) + DigitVal(s[Len(s)])

\* parseInt(s, 10) of a formatted part: the longest prefix of digits
RECURSIVE DigitPrefix(_)
DigitPrefix(s) ==
    IF s = <<>> \/ ~IsDigit(Head(s)) THEN <<>>
    ELSE <<Head(s)>> \o DigitPrefix(Tail(s))

parseInt(s) == DigitsValue(DigitPrefix(s))

\* the characters joined into one string (for messages)
RECURSIVE Cat(_)
Cat(s) == IF s = <<>> THEN "" ELSE Head(s) \o Cat(Tail(s))

-----------------------------------------------------------------------------
(* Date parsing: new Date(isoString) for the date-time string format       *)
(* YYYY-MM-DDTHH:mm:ss, an optional .sss, then Z or +HH:mm / -HH:mm.  The   *)
(* year is four digits, or a sign and six digits (not -000000).  A string  *)
(* that does not start with such a year is handed to the host's legacy     *)
(* parser, which rejects a                                                 *)
(* number followed by the letter T: the result is NaN.  The host decides   *)
(* whether the day of the month is checked against 1..31 only (V8: a day   *)
(* past the end of the month carries into the next month) or against the   *)
(* length of the month.                                                    *)

\* the two-digit number at s[i], s[i + 1], or -1
TwoDigits(s, i) ==
    IF i + 1 <= Len(s) /\ IsDigit(s[i]) /\ IsDigit(s[i + 1])
    THEN 10 * DigitVal(s[i]) + DigitVal(s[i + 1])
    ELSE -1

CharAt(s, i) == IF i >= 1 /\ i <= Len(s) THEN s[i] ELSE ""

DateParse(s, h) ==
    LET signed == CharAt(s, 1) \in {"+", "-"}
        yl == IF signed THEN 7 ELSE 4
        ydig == IF signed THEN SubSeq(s, 2, 7) ELSE SubSeq(s, 1, 4)
        yearOk == /\ Len(s) >= yl
                  /\ AllDigits(ydig)
                  /\ ~(CharAt(s, 1) = "-" /\ DigitsValue(ydig) = 0)
        yr == IF CharAt(s, 1) = "-" THEN -DigitsValue(ydig) ELSE DigitsValue(ydig)
        mo == TwoDigits(s, yl + 2)
        dy == TwoDigits(s, yl + 5)
        hh == TwoDigits(s, yl + 8)
        mi == TwoDigits(s, yl + 11)
        ss == TwoDigits(s, yl + 14)
        hasFrac == CharAt(s, yl + 16) = "."
        fracOk == \/ ~hasFrac
                  \/ Len(s) >= yl + 19 /\ AllDigits(SubSeq(s, yl + 17, yl + 19))
        ms == IF hasFrac THEN DigitsValue(SubSeq(s, yl + 17, yl + 19)) ELSE 0
        zl == IF hasFrac THEN yl + 20 ELSE yl + 16
        isZ == Len(s) = zl /\ s[zl] = "Z"
        isOff == /\ Len(s) = zl + 5
                 /\ s[zl] \in {"+", "-"}
                 /\ s[zl + 3] = ":"
        th == TwoDigits(s, zl + 1)
        tm == TwoDigits(s, zl + 4)
        shape == /\ yearOk
                 /\ CharAt(s, yl + 1) = "-" /\ CharAt(s, yl + 4) = "-"
                 /\ CharAt(s, yl + 7) = "T"
                 /\ CharAt(s, yl + 10) = ":" /\ CharAt(s, yl + 13) = ":"
                 /\ fracOk
                 /\ (isZ \/ isOff)
        dayOk == IF h.isoDayCheck = "calendar"
                 THEN dy >= 1 /\ dy <= DaysInMonth(yr, mo)
                 ELSE dy >= 1 /\ dy <= 31
        fieldsOk == /\ mo >= 1 /\ mo <= 12
                    /\ dayOk
                    /\ \/ hh >= 0 /\ hh <= 23
                       \/ hh = 24 /\ mi = 0 /\ ss = 0
                    /\ mi >= 0 /\ mi <= 59
                    /\ ss >= 0 /\ ss <= 59
        tzOk == isZ \/ (th >= 0 /\ th <= 23 /\ tm >= 0 /\ tm <= 59)
        tzSec == IF isZ THEN 0
                 ELSE (IF s[zl] = "-" THEN -1 ELSE 1) * (th * 3600 + tm * 60)
    IN  IF ~shape THEN NaN
        ELSE IF ~(fieldsOk /\ tzOk) THEN NaN
        ELSE TimeClip(Num(MakeDay(yr, mo - 1, dy),
                          MakeTime(hh, mi, ss) + ms - tzSec * 1000))

-----------------------------------------------------------------------------
(* Timezone designators *)

TzZ == <<"Z">>
TzPlus0000 == <<"+", "0", "0", ":", "0", "0">>
TzPlus0530 == <<"+", "0", "5", ":", "3", "0">>
TzMinus0500 == <<"-", "0", "5", ":", "0", "0">>
TzPlus9999 == <<"+", "9", "9", ":", "9", "9">>
TzUTC == <<"U", "T", "C">>
TzKolkata == <<"A", "s", "i", "a", "/", "K", "o", "l", "k", "a", "t", "a">>
TzNewYork == <<"A", "m", "e", "r", "i", "c", "a", "/", "N", "e", "w", "_", "Y", "o", "r", "k">>
TzNotAZone == <<"N", "o", "t", "/", "A", "Z", "o", "n", "e">>
TzLowerZ == <<"z">>
TzPlus530 == <<"+", "5", ":", "3", "0">>
TzPlus0530NoColon == <<"+", "0", "5", "3", "0">>

-----------------------------------------------------------------------------
(* The host's time zone data, as Intl.DateTimeFormat exposes it.  The      *)
(* table holds, for each zone, local mean time before standard time was    *)
(* adopted and the rule in force today (America/New_York: daylight time    *)
(* from the second Sunday of March, 07:00 UTC, to the first Sunday of      *)
(* November, 06:00 UTC, as from 2007).  The years of the model lie in      *)
(* these two eras.                                                         *)

RecognizedZones == {TzUTC, TzKolkata, TzNewYork}

\* the first Sunday on or after day number d
SundayOnOrAfter(d) == d + ((7 - WeekDay(d)) % 7)

\* daylight time of year y: second Sunday of March 07:00 UTC to first
\* Sunday of November 06:00 UTC
NewYorkDaylight(t, y) ==
    /\ ~Less(t, Num(SundayOnOrAfter(MakeDay(y, 2, 1)) + 7, 7 * 3600000))
    /\ Less(t, Num(SundayOnOrAfter(MakeDay(y, 10, 1)), 6 * 3600000))

NewYorkOffsetAt(t) ==
    IF Less(t, Num(MakeDay(1883, 10, 18), 17 * 3600000)) THEN -17762
    ELSE IF NewYorkDaylight(t, CivilFromDay(t.hi).year) THEN -14400
    ELSE -18000

KolkataOffsetAt(t) ==
    IF Less(t, Num(MakeDay(1854, 5, 27), 0)) THEN 21208 ELSE 19800

\* the zone's UTC offset in seconds at time value t
OffsetAt(tz, t) ==
    IF tz = TzNewYork THEN NewYorkOffsetAt(t)
    ELSE IF tz = TzKolkata THEN KolkataOffsetAt(t)
    ELSE 0

\* every offset the zone has in the table
ZoneOffsets(tz) ==
    IF tz = TzNewYork THEN {-17762, -18000, -14400}
    ELSE IF tz = TzKolkata THEN {21208, 19800}
    ELSE {0}

\* new Intl.DateTimeFormat('en-US', {timeZone}): throws a RangeError for a
\* zone the host does not know
DateTimeFormatThrows(tz) == tz \notin RecognizedZones

\* formatter.formatToParts(date) with year 'numeric', the other fields
\* '2-digit' and hour12: false.  An invalid date throws a RangeError.  The
\* year is the year of the era.  hour12: false selects the hour cycle h23
\* (hours 00..23) or, on hosts that resolve it against the en-US default of
\* h12, h24: midnight is shown as hour 24 of the day that begins.
PartsOf(f, hourCycle) ==
    [year |-> NumberToString(IF f.year > 0 THEN f.year ELSE 1 - f.year),
     month |-> padStart2(NumberToString(f.month)),
     day |-> padStart2(NumberToString(f.day)),
     hour |-> padStart2(NumberToString(IF hourCycle = "h24" /\ f.hour = 0
                                       THEN 24 ELSE f.hour)),
     minute |-> padStart2(NumberToString(f.minute)),
     second |-> padStart2(NumberToString(f.second))]

formatToParts(tz, date, h) ==
    PartsOf(FieldsAt(date, OffsetAt(tz, date)), h.hourCycle)

-----------------------------------------------------------------------------
(* Outcomes of a call *)

NoResult == [kind |-> "none", value |-> NaN, what |-> "", message |-> ""]

Return(v) == [kind |-> "return", value |-> v, what |-> "", message |-> ""]

\* throw new Error(message); what is the message up to its first colon
Throw(what, rest) ==
    [kind |-> "throw", value |-> NaN, what |-> what, message |-> what \o rest]

\* the outcomes of a call that returns a string
NoIso == [kind |-> "none", value |-> <<>>, what |-> "", message |-> ""]

ReturnString(s) == [kind |-> "return", value |-> s, what |-> "", message |-> ""]

\* a RangeError of the host
ThrowRangeError(message) ==
    [kind |-> "throw", value |-> <<>>, what |-> "RangeError", message |-> message]

\* if (useMilliseconds): true only for the value true
Truthy(b) == b = "true"

-----------------------------------------------------------------------------
(* The library *)

handleUtcOffset(year, month, day, hour, minute, second, timezone, useMs) ==
    LET useMilliseconds == IF useMs = "undefined" THEN "false" ELSE useMs
        isoString ==
            NumberToString(year) \o <<"-">>
            \o padStart2(NumberToString(month)) \o <<"-">>
            \o padStart2(NumberToString(day)) \o <<"T">>
            \o padStart2(NumberToString(hour)) \o <<":">>
            \o padStart2(NumberToString(minute)) \o <<":">>
            \o padStart2(NumberToString(second))
            \o (IF timezone = TzZ THEN TzZ ELSE timezone)
        date == DateParse(isoString, host)
    IN  IF date.nan THEN Throw("Invalid date", ": " \o Cat(isoString))
        ELSE IF Truthy(useMilliseconds) THEN Return(date)
        ELSE Return(FloorDiv1000(date))

InvalidTimezone(timezone, errorMessage) ==
    Throw("Invalid timezone",
          ": " \o Cat(timezone)
          \o ". Use UTC offset format (e.g., \"+05:30\") or valid IANA timezone name (e.g., \"America/New_York\"). Error: "
          \o errorMessage)

handleIanaTimezone(year, month, day, hour, minute, second, timezone, useMs) ==
    LET useMilliseconds == IF useMs = "undefined" THEN "false" ELSE useMs
        utcDate == DateUTC(year, month - 1, day, hour, minute, second)
        parts == formatToParts(timezone, utcDate, host)
        getPartValue(type) == parseInt(parts[type])
        localDate == DateUTC(getPartValue("year"), getPartValue("month") - 1,
                             getPartValue("day"), getPartValue("hour"),
                             getPartValue("minute"), getPartValue("second"))
        offset == Sub(utcDate, localDate)
        correctDate == TimeClip(Add(utcDate, offset))
    IN  IF DateTimeFormatThrows(timezone)
        THEN InvalidTimezone(timezone, "Invalid time zone specified: " \o Cat(timezone))
        ELSE IF utcDate.nan
        THEN InvalidTimezone(timezone, "Invalid time value")
        ELSE IF Truthy(useMilliseconds) THEN Return(correctDate)
        ELSE Return(FloorDiv1000(correctDate))

\* /^[+-]\d{2}:\d{2}$/.test(timezone)
OffsetPattern(timezone) ==
    /\ Len(timezone) = 6
    /\ timezone[1] \in {"+", "-"}
    /\ IsDigit(timezone[2]) /\ IsDigit(timezone[3])
    /\ timezone[4] = ":"
    /\ IsDigit(timezone[5]) /\ IsDigit(timezone[6])

\* the test for "Z" forgotten
IsUtcOffsetFormat_NoZulu(timezone) == OffsetPattern(timezone)

\* the colon of the pattern made optional: /^[+-]\d{2}:?\d{2}$/
IsUtcOffsetFormat_OptionalColon(timezone) ==
    \/ timezone = TzZ
    \/ OffsetPattern(timezone)
    \/ /\ Len(timezone) = 5
       /\ timezone[1] \in {"+", "-"}
       /\ \A i \in 2..5 : IsDigit(timezone[i])

IsUtcOffsetFormat(timezone) == timezone = TzZ \/ OffsetPattern(timezone)

OutOfRange(field, value, lo, hi) ==
    Throw("Invalid " \o field,
          ": " \o Cat(NumberToString(value)) \o ". Must be between "
          \o Cat(NumberToString(lo)) \o "-" \o Cat(NumberToString(hi)))

\* the hour check off by one: hour > 24
dateToUnixTime_HourOffByOne(year, month, day, hour, minute, second, timezone, useMilliseconds) ==
    IF month < 1 \/ month > 12 THEN OutOfRange("month", month, 1, 12)
    ELSE IF day < 1 \/ day > 31 THEN OutOfRange("day", day, 1, 31)
    ELSE IF hour < 0 \/ hour > 24 THEN OutOfRange("hour", hour, 0, 23)
    ELSE IF minute < 0 \/ minute > 59 THEN OutOfRange("minute", minute, 0, 59)
    ELSE IF second < 0 \/ second > 59 THEN OutOfRange("second", second, 0, 59)
    ELSE IF IsUtcOffsetFormat(timezone)
    THEN handleUtcOffset(year, month, day, hour, minute, second, timezone,
                         useMilliseconds)
    ELSE handleIanaTimezone(year, month, day, hour, minute, second, timezone,
                            useMilliseconds)

\* the zone probed before the components are checked
dateToUnixTime_ZoneFirst(year, month, day, hour, minute, second, timezone, useMilliseconds) ==
    IF ~IsUtcOffsetFormat(timezone) /\ DateTimeFormatThrows(timezone)
    THEN InvalidTimezone(timezone, "Invalid time zone specified: " \o Cat(timezone))
    ELSE IF month < 1 \/ month > 12 THEN OutOfRange("month", month, 1, 12)
    ELSE IF day < 1 \/ day > 31 THEN OutOfRange("day", day, 1, 31)
    ELSE IF hour < 0 \/ hour > 23 THEN OutOfRange("hour", hour, 0, 23)
    ELSE IF minute < 0 \/ minute > 59 THEN OutOfRange("minute", minute, 0, 59)
    ELSE IF second < 0 \/ second > 59 THEN OutOfRange("second", second, 0, 59)
    ELSE IF IsUtcOffsetFormat(timezone)
    THEN handleUtcOffset(year, month, day, hour, minute, second, timezone,
                         useMilliseconds)
    ELSE handleIanaTimezone(year, month, day, hour, minute, second, timezone,
                            useMilliseconds)

dateToUnixTime(year, month, day, hour, minute, second, timezone, useMilliseconds) ==
    IF month < 1 \/ month > 12 THEN OutOfRange("month", month, 1, 12)
    ELSE IF day < 1 \/ day > 31 THEN OutOfRange("day", day, 1, 31)
    ELSE IF hour < 0 \/ hour > 23 THEN OutOfRange("hour", hour, 0, 23)
    ELSE IF minute < 0 \/ minute > 59 THEN OutOfRange("minute", minute, 0, 59)
    ELSE IF second < 0 \/ second > 59 THEN OutOfRange("second", second, 0, 59)
    ELSE IF IsUtcOffsetFormat(timezone)
    THEN handleUtcOffset(year, month, day, hour, minute, second, timezone,
                         useMilliseconds)
    ELSE handleIanaTimezone(year, month, day, hour, minute, second, timezone,
                            useMilliseconds)

\* the eighth argument is not passed on
dateToUnixTimeFromObject(in) ==
    dateToUnixTime(in.year, in.month, in.day, in.hour, in.minute, in.second,
                   in.timezone, "undefined")

\* s.padStart(w, '0')
RECURSIVE padStart(_, _)
padStart(s, w) == IF Len(s) >= w THEN s ELSE padStart(<<"0">> \o s, w)

\* the year of Date.prototype.toISOString: four digits for the years 0 to
\* 9999, otherwise a sign and six digits
YearText(y) ==
    IF y >= 0 /\ y <= 9999 THEN padStart(NatToString(y), 4)
    ELSE IF y < 0 THEN <<"-">> \o padStart(NatToString(-y), 6)
    ELSE <<"+">> \o padStart(NatToString(y), 6)

IsoText(f, ms) ==
    YearText(f.year) \o <<"-">>
    \o padStart(NatToString(f.month), 2) \o <<"-">>
    \o padStart(NatToString(f.day), 2) \o <<"T">>
    \o padStart(NatToString(f.hour), 2) \o <<":">>
    \o padStart(NatToString(f.minute), 2) \o <<":">>
    \o padStart(NatToString(f.second), 2) \o <<".">>
    \o padStart(NatToString(ms), 3) \o <<"Z">>

\* Date.prototype.toISOString: a RangeError for an invalid date
toISOString(tv) ==
    IF tv.nan THEN ThrowRangeError("Invalid time value")
    ELSE ReturnString(IsoText(FieldsOfLocal(tv), tv.lo % 1000))

\* the multiplication by 1000 forgotten
DateOfSeconds_NoScaling(t) == TimeClip(t)

\* new Date(unixTime * 1000): a product past 8.64e15 in magnitude is not a
\* time value
DateOfSeconds(t) ==
    IF t.nan THEN NaN
    ELSE IF t.hi > 100000 \/ t.hi < -100000 THEN NaN
    ELSE TimeClip(Times1000(t))

unixTimeToIso(t) == toISOString(DateOfSeconds(t))

-----------------------------------------------------------------------------
(* The calls the model makes *)

Years == {999, 2023, 2024, 275761}
Months == {2, 3, 4, 11, 12}
Days == {1, 3, 4, 10, 29, 30, 31}
Hours == {0, 1, 2, 6, 7, 12, 18}
Minutes == {0, 30}
Seconds == {0}
Designators == {TzZ, TzPlus0000, TzPlus0530, TzMinus0500, TzPlus9999,
                TzUTC, TzKolkata, TzNewYork, TzNotAZone}
Flags == {"true", "false", "undefined"}

\* values on both sides of every range check
EdgeMonths == {0, 12, 13}
EdgeDays == {0, 31, 32}
EdgeHours == {-1, 23, 24}
EdgeMinutes == {-1, 59, 60}
EdgeSeconds == {-1, 59, 60}
EdgeDesignators == {TzZ, TzPlus9999, TzNewYork, TzNotAZone}

Hosts == [isoDayCheck : {"range", "calendar"}, hourCycle : {"h23", "h24"}]

CalendarInputs ==
    [year : Years, month : Months, day : Days, hour : Hours, minute : Minutes,
     second : Seconds, timezone : Designators, useMilliseconds : Flags]

\* calls at the end of the range of time values, 275760-09-13T00:00:00Z
LimitInputs ==
    [year : {275760}, month : {9}, day : {12, 13}, hour : {0, 23},
     minute : {0}, second : {0}, timezone : Designators,
     useMilliseconds : Flags]

EdgeInputs ==
    [year : {2024}, month : EdgeMonths, day : EdgeDays, hour : EdgeHours,
     minute : EdgeMinutes, second : EdgeSeconds, timezone : EdgeDesignators,
     useMilliseconds : {"false"}]

\* calls on both sides of every carry of the clock and the calendar
BoundaryInputs ==
    [year : {999, 2023, 2024, 9999}, month : {1, 2, 4, 12},
     day : {28, 29, 30, 31}, hour : {0, 23}, minute : {0, 59},
     second : {0, 58, 59}, timezone : {TzZ, TzPlus0530, TzMinus0500},
     useMilliseconds : {"false"}]

\* designators that resemble an offset without matching the pattern
SyntaxInputs ==
    [year : {2024}, month : {12}, day : {4}, hour : {0, 12}, minute : {30},
     second : {0}, timezone : {TzLowerZ, TzPlus530, TzPlus0530NoColon},
     useMilliseconds : Flags]

DateTimeInputs ==
    CalendarInputs \cup EdgeInputs \cup LimitInputs \cup BoundaryInputs
        \cup SyntaxInputs

\* the number of seconds from the epoch to second s of day number d
SecondsOf(d, s) == Num(d \div 1000, (d % 1000) * 86400 + s)

\* timestamps handed to unixTimeToIso: around the epoch, a leap day, the
\* years 0 and 9999 and both ends of the range of time values
TimestampDays ==
    {-100000001, -100000000, -99999999, -719529, -719528, -1, 0, 1, 19723,
     19782, 19783, 2932896, 2932897, 99999999, 100000000, 100000001}
TimestampSeconds == {0, 1, 59, 3600, 86399}
Timestamps == {SecondsOf(d, s) : d \in TimestampDays, s \in TimestampSeconds}

\* the input of a run that calls unixTimeToIso on a given timestamp
EpochInput ==
    [year |-> 1970, month |-> 1, day |-> 1, hour |-> 0, minute |-> 0,
     second |-> 0, timezone |-> TzZ, useMilliseconds |-> "undefined"]

Init ==
    /\ host \in Hosts
    /\ called = "none"
    /\ result = NoResult
    /\ iso = NoIso
    /\ \/ input \in DateTimeInputs /\ unixTime = NaN
       \/ input = EpochInput /\ unixTime \in Timestamps

CallDateToUnixTime ==
    /\ called = "none"
    /\ called' = "dateToUnixTime"
    /\ result' = dateToUnixTime(input.year, input.month, input.day, input.hour,
                                input.minute, input.second, input.timezone,
                                input.useMilliseconds)
    /\ UNCHANGED <<input, host, unixTime, iso>>

CallDateToUnixTimeFromObject ==
    /\ called = "none"
    /\ called' = "dateToUnixTimeFromObject"
    /\ result' = dateToUnixTimeFromObject(input)
    /\ UNCHANGED <<input, host, unixTime, iso>>

\* unixTimeToIso on a given timestamp
CallUnixTimeToIso ==
    /\ called = "none"
    /\ ~unixTime.nan
    /\ called' = "unixTimeToIso"
    /\ iso' = unixTimeToIso(unixTime)
    /\ UNCHANGED <<input, host, result, unixTime>>

\* unixTimeToIso on the timestamp dateToUnixTime returned
CallUnixTimeToIsoOnResult ==
    /\ called = "dateToUnixTime"
    /\ result.kind = "return"
    /\ iso.kind = "none"
    /\ unixTime' = result.value
    /\ iso' = unixTimeToIso(result.value)
    /\ UNCHANGED <<input, host, called, result>>

Next ==
    \/ CallDateToUnixTime
    \/ CallDateToUnixTimeFromObject
    \/ CallUnixTimeToIso
    \/ CallUnixTimeToIsoOnResult

Spec == Init /\ [][Next]_vars
-----------------------------------------------------------------------------
(* Vocabulary of the properties *)

AfterDateToUnixTime == called = "dateToUnixTime"

\* a number small enough to be written down directly
NumOf(n) == Num(0, n)

InRange(in) ==
    /\ in.month >= 1 /\ in.month <= 12
    /\ in.day >= 1 /\ in.day <= 31
    /\ in.hour >= 0 /\ in.hour <= 23
    /\ in.minute >= 0 /\ in.minute <= 59
    /\ in.second >= 0 /\ in.second <= 59

\* the components are in range and name a day the calendar has
RealDate(in) == InRange(in) /\ in.day <= DaysInMonth(in.year, in.month)

\* UTC(c): the civil date-time read as UTC, in milliseconds from the epoch
UTCOf(in) ==
    Num(DayFromYear(in.year) + DaysBeforeMonth(in.year, in.month - 1) + in.day - 1,
        in.hour * 3600000 + in.minute * 60000 + in.second * 1000)

CivilOf(in) ==
    [year |-> in.year, month |-> in.month, day |-> in.day,
     hour |-> in.hour, minute |-> in.minute, second |-> in.second]

\* a designator +HH:MM or -HH:MM with HH in 00..23 and MM in 00..59
FixedOffset(tz) ==
    /\ OffsetPattern(tz)
    /\ 10 * DigitVal(tz[2]) + DigitVal(tz[3]) <= 23
    /\ 10 * DigitVal(tz[5]) + DigitVal(tz[6]) <= 59

\* its signed offset in seconds
OffsetSeconds(tz) ==
    (IF tz[1] = "-" THEN -1 ELSE 1)
        * ((10 * DigitVal(tz[2]) + DigitVal(tz[3])) * 3600
           + (10 * DigitVal(tz[5]) + DigitVal(tz[6])) * 60)

\* the result is a number in the unit the flag asks for; its value in ms
ResultMs == IF input.useMilliseconds = "true" THEN result.value
            ELSE Times1000(result.value)

\* the value a call must return for the instant t (in ms)
InUnit(t) == IF input.useMilliseconds = "true" THEN t ELSE FloorDiv1000(t)

\* the fields the zone shows at time value t, hours counted 0..23
Displays(tz, t) == FieldsAt(t, OffsetAt(tz, t))

\* the instants at which the zone shows the wall-clock time of the input:
\* none in a skipped hour, two in an ambiguous hour
WallClockInstants(tz, in) ==
    {t \in {Num(UTCOf(in).hi, UTCOf(in).lo - o * 1000) : o \in ZoneOffsets(tz)} :
        Displays(tz, t) = CivilOf(in)}

\* two decimal digits, written without the model's formatting operators
TwoDigitText(n) == IF n < 10 THEN "0" \o ToString(n) ELSE ToString(n)

ComposedText(in) ==
    ToString(in.year) \o "-" \o TwoDigitText(in.month) \o "-"
    \o TwoDigitText(in.day) \o "T" \o TwoDigitText(in.hour) \o ":"
    \o TwoDigitText(in.minute) \o ":" \o TwoDigitText(in.second)
    \o Cat(in.timezone)

RangeMessage(field, value, lo, hi) ==
    "Invalid " \o field \o ": " \o ToString(value) \o ". Must be between "
    \o ToString(lo) \o "-" \o ToString(hi)

\* the range errors the input calls for
RangeMessages(in) ==
    (IF in.month < 1 \/ in.month > 12
     THEN {RangeMessage("month", in.month, 1, 12)} ELSE {})
    \cup (IF in.day < 1 \/ in.day > 31
          THEN {RangeMessage("day", in.day, 1, 31)} ELSE {})
    \cup (IF in.hour < 0 \/ in.hour > 23
          THEN {RangeMessage("hour", in.hour, 0, 23)} ELSE {})
    \cup (IF in.minute < 0 \/ in.minute > 59
          THEN {RangeMessage("minute", in.minute, 0, 59)} ELSE {})
    \cup (IF in.second < 0 \/ in.second > 59
          THEN {RangeMessage("second", in.second, 0, 59)} ELSE {})

RangeErrors ==
    {"Invalid month", "Invalid day", "Invalid hour", "Invalid minute",
     "Invalid second"}

\* the first component out of range, in the order of the checks
FirstOutOfRange(in) ==
    IF in.month < 1 \/ in.month > 12 THEN "month"
    ELSE IF in.day < 1 \/ in.day > 31 THEN "day"
    ELSE IF in.hour < 0 \/ in.hour > 23 THEN "hour"
    ELSE IF in.minute < 0 \/ in.minute > 59 THEN "minute"
    ELSE "second"

\* the year as an ISO string writes it, without the model's formatting
YearAsText(y) ==
    IF y > 9999 THEN "+" \o ToString(y)
    ELSE IF y >= 1000 THEN ToString(y)
    ELSE IF y >= 100 THEN "0" \o ToString(y)
    ELSE IF y >= 10 THEN "00" \o ToString(y)
    ELSE "000" \o ToString(y)

\* the civil date-time followed by .000Z
RenderedText(in) ==
    YearAsText(in.year) \o "-" \o TwoDigitText(in.month) \o "-"
    \o TwoDigitText(in.day) \o "T" \o TwoDigitText(in.hour) \o ":"
    \o TwoDigitText(in.minute) \o ":" \o TwoDigitText(in.second) \o ".000Z"

AfterUnixTimeToIso == called = "unixTimeToIso"

\* unixTimeToIso has run on the timestamp dateToUnixTime returned
AfterConvertBack == called = "dateToUnixTime" /\ iso.kind # "none"

\* parsing the returned string as a UTC instant and dividing by 1000
ParsedBack == FloorDiv1000(DateParse(iso.value, host))

\* unixTimeToIso has run, on a given timestamp or on a returned one
AfterAnyUnixTimeToIso == iso.kind # "none" /\ ~unixTime.nan

AtMost(a, b) == ~Less(b, a)

\* |t| <= 8,640,000,000,000 seconds: t * 1000 is a time value
InTimeValueRange(t) ==
    AtMost(SecondsOf(-100000000, 0), t) /\ AtMost(t, SecondsOf(100000000, 0))

\* t lies in the years 0 to 9999
InFourDigitYears(t) ==
    AtMost(SecondsOf(-719528, 0), t) /\ AtMost(t, SecondsOf(2932896, 86399))

\* from position k + 1 on, s reads -MM-DDTHH:mm:ss.000Z and ends there
DateTimeShape(s, k) ==
    /\ Len(s) = k + 20
    /\ \A i \in {2, 3, 5, 6, 8, 9, 11, 12, 14, 15} : IsDigit(s[k + i])
    /\ s[k + 1] = "-" /\ s[k + 4] = "-" /\ s[k + 7] = "T"
    /\ s[k + 10] = ":" /\ s[k + 13] = ":" /\ s[k + 16] = "."
    /\ s[k + 17] = "0" /\ s[k + 18] = "0" /\ s[k + 19] = "0"
    /\ s[k + 20] = "Z"

\* YYYY-MM-DDTHH:mm:ss.000Z
FourDigitYearShape(s) ==
    /\ Len(s) = 24
    /\ \A i \in 1..4 : IsDigit(s[i])
    /\ DateTimeShape(s, 4)

\* a sign, six digits of year, then -MM-DDTHH:mm:ss.000Z
SixDigitYearShape(s) ==
    /\ Len(s) = 27
    /\ s[1] \in {"+", "-"}
    /\ \A i \in 2..7 : IsDigit(s[i])
    /\ DateTimeShape(s, 7)

\* the calendar successor of a civil date-time by one second
NextSecond(in) ==
    IF in.second < 59 THEN [in EXCEPT !.second = @ + 1]
    ELSE IF in.minute < 59 THEN [in EXCEPT !.second = 0, !.minute = @ + 1]
    ELSE IF in.hour < 23
    THEN [in EXCEPT !.second = 0, !.minute = 0, !.hour = @ + 1]
    ELSE IF in.day < DaysInMonth(in.year, in.month)
    THEN [in EXCEPT !.second = 0, !.minute = 0, !.hour = 0, !.day = @ + 1]
    ELSE IF in.month < 12
    THEN [in EXCEPT !.second = 0, !.minute = 0, !.hour = 0, !.day = 1,
                    !.month = @ + 1]
    ELSE [in EXCEPT !.second = 0, !.minute = 0, !.hour = 0, !.day = 1,
                    !.month = 1, !.year = @ + 1]

\* dateToUnixTime on an input record
Of(in) ==
    dateToUnixTime(in.year, in.month, in.day, in.hour, in.minute, in.second,
                   in.timezone, in.useMilliseconds)

-----------------------------------------------------------------------------
(* Properties *)

\* C1: for a real calendar date and a designator +HH:MM / -HH:MM with HH in
\* 00..23 and MM in 00..59, dateToUnixTime returns UTC(c) minus the signed
\* offset.
C1_OffsetArithmetic ==
    (AfterDateToUnixTime /\ RealDate(input) /\ FixedOffset(input.timezone))
        => /\ result.kind = "return"
           /\ result.value =
                InUnit(Num(UTCOf(input).hi,
                           UTCOf(input).lo - OffsetSeconds(input.timezone) * 1000))

\* C2: for a zone with a DST transition and a real wall-clock time outside
\* the skipped and the ambiguous hour, the instant dateToUnixTime returns is
\* shown by the zone as that wall-clock time.
C2_NamedZoneShowsWallClock ==
    (/\ AfterDateToUnixTime /\ RealDate(input)
     /\ input.timezone = TzNewYork
     /\ Cardinality(WallClockInstants(input.timezone, input)) = 1)
        => /\ result.kind = "return"
           /\ Displays(input.timezone, ResultMs) = CivilOf(input)

\* the zone's offset is the same one day before, at, and one day after UTC(c)
ConstantOffsetAround(tz, in) ==
    LET t == UTCOf(in)
    IN  /\ OffsetAt(tz, Num(t.hi - 1, t.lo)) = OffsetAt(tz, t)
        /\ OffsetAt(tz, Num(t.hi + 1, t.lo)) = OffsetAt(tz, t)

\* C3: for a recognized zone whose offset is a constant o around the
\* requested time, dateToUnixTime gives what it gives for the designator
\* +HH:MM / -HH:MM of o.
C3_NamedZoneAgreesWithOffset ==
    (/\ AfterDateToUnixTime /\ RealDate(input)
     /\ input.timezone \in RecognizedZones
     /\ ConstantOffsetAround(input.timezone, input))
        => \A d \in Designators :
             (FixedOffset(d) /\ OffsetSeconds(d) = OffsetAt(input.timezone, UTCOf(input)))
                => LET byOffset == dateToUnixTime(input.year, input.month, input.day,
                                                  input.hour, input.minute, input.second,
                                                  d, input.useMilliseconds)
                   IN  /\ byOffset.kind = result.kind
                       /\ byOffset.value = result.value

\* C4: a component out of range makes dateToUnixTime fail with the message
\* 'Invalid <field>: <value>. Must be between <lo>-<hi>' of a component that
\* is out of range; with all five in range none of the five errors is raised.
C4_RangeErrors ==
    AfterDateToUnixTime
        => IF InRange(input)
           THEN result.what \notin RangeErrors
           ELSE result.kind = "throw" /\ result.message \in RangeMessages(input)

C4_Witness ==
    /\ AfterDateToUnixTime
    /\ input.month = 12 /\ input.day = 31 /\ input.hour = 24
    /\ input.minute = 59 /\ input.second = 59
    /\ result.message = "Invalid hour: 24. Must be between 0-23"

\* C5: with a component out of range the error is that of the first one out
\* of range in the order month, day, hour, minute, second, whatever the
\* designator is (never an invalid-timezone or invalid-date error).
C5_ValidationFirst ==
    (AfterDateToUnixTime /\ ~InRange(input))
        => /\ result.kind = "throw"
           /\ result.what = "Invalid " \o FirstOutOfRange(input)

C5_Witness ==
    /\ AfterDateToUnixTime
    /\ input.month = 13 /\ input.day = 32 /\ input.second = 60
    /\ input.timezone = TzNotAZone
    /\ result.what = "Invalid month"

\* C6: on the fixed-offset path, components in range that are not a real
\* calendar date make dateToUnixTime fail with 'Invalid date: <composed>'.
C6_OffsetPathRejectsUnrealDate ==
    (/\ AfterDateToUnixTime /\ InRange(input) /\ ~RealDate(input)
     /\ IsUtcOffsetFormat(input.timezone))
        => /\ result.kind = "throw"
           /\ result.message = "Invalid date: " \o ComposedText(input)

\* C7: with all components in range, dateToUnixTime fails with an
\* invalid-timezone error exactly when the designator is neither 'Z', nor of
\* the form [+-]DD:DD, nor a zone the host recognizes.
C7_InvalidTimezoneIff ==
    (AfterDateToUnixTime /\ InRange(input))
        => (result.what = "Invalid timezone"
              <=> ~(\/ input.timezone = TzZ
                    \/ OffsetPattern(input.timezone)
                    \/ input.timezone \in RecognizedZones))

\* the same call with another value of the flag
WithFlag(f) ==
    dateToUnixTime(input.year, input.month, input.day, input.hour,
                   input.minute, input.second, input.timezone, f)

\* C8: whenever dateToUnixTime succeeds (returns a number), the result with
\* useMilliseconds true is 1000 times the result with it false or omitted,
\* and the latter is floor(milliseconds / 1000).
C8_MillisecondScaling ==
    (AfterDateToUnixTime /\ result.kind = "return" /\ ~result.value.nan)
        => IF input.useMilliseconds = "true"
           THEN \A f \in {"false", "undefined"} :
                    /\ WithFlag(f).kind = "return"
                    /\ result.value = Times1000(WithFlag(f).value)
                    /\ WithFlag(f).value = FloorDiv1000(result.value)
           ELSE /\ WithFlag("true").kind = "return"
                /\ WithFlag("true").value = Times1000(result.value)
                /\ result.value = FloorDiv1000(WithFlag("true").value)

\* a named zone, an instant before the epoch, milliseconds asked for
C8_Witness ==
    /\ AfterDateToUnixTime /\ result.kind = "return"
    /\ input.useMilliseconds = "true"
    /\ input.timezone = TzNewYork
    /\ result.value.hi < 0 /\ result.value.lo % 1000 = 0

\* C9: dateToUnixTimeFromObject(r) returns or fails with what
\* dateToUnixTime(r.year, ..., r.timezone, r.useMilliseconds) does.
C9_FromObjectAgrees ==
    called = "dateToUnixTimeFromObject"
        => result = dateToUnixTime(input.year, input.month, input.day, input.hour,
                                   input.minute, input.second, input.timezone,
                                   input.useMilliseconds)

\* C10: for a real calendar date, dateToUnixTime with 'Z' returns the value
\* it returns with '+00:00', and fails when that fails.
C10_ZuluIsPlusZero ==
    (AfterDateToUnixTime /\ RealDate(input) /\ input.timezone = TzZ)
        => LET plus == dateToUnixTime(input.year, input.month, input.day, input.hour,
                                      input.minute, input.second, TzPlus0000,
                                      input.useMilliseconds)
           IN  /\ plus.kind = result.kind
               /\ plus.value = result.value
               /\ plus.what = result.what

C10_Witness ==
    /\ AfterDateToUnixTime /\ RealDate(input) /\ input.timezone = TzZ
    /\ input.year = 2024 /\ input.month = 12 /\ input.day = 4
    /\ input.hour = 12 /\ input.minute = 30 /\ input.useMilliseconds = "false"
    /\ result = Return(NumOf(1733315400))

\* C11: for every integer t >= 0, parsing unixTimeToIso(t) as a UTC instant
\* and dividing by 1000 (floored) gives back t; and for every real civil
\* date-time c, dateToUnixTime(c, 'Z') returns and unixTimeToIso of it is c
\* followed by '.000Z'.
C11_RoundTrip ==
    /\ (AfterUnixTimeToIso /\ ~Less(unixTime, NumOf(0)))
          => /\ iso.kind = "return"
             /\ ParsedBack = unixTime
    /\ (/\ AfterDateToUnixTime /\ RealDate(input) /\ input.timezone = TzZ
        /\ input.useMilliseconds # "true")
          => /\ result.kind = "return"
             /\ AfterConvertBack
                  => /\ iso.kind = "return"
                     /\ Cat(iso.value) = RenderedText(input)

\* C12 as stated: for any integer number of seconds unixTimeToIso returns a
\* string of the form YYYY-MM-DDTHH:mm:ss.sssZ, which ends in 'Z'.
C12_NeverFails ==
    AfterAnyUnixTimeToIso
        => /\ iso.kind = "return"
           /\ FourDigitYearShape(iso.value)

\* C12 amended: for an integer t with |t| <= 8,640,000,000,000 unixTimeToIso
\* returns a string ending in 'Z', YYYY-MM-DDTHH:mm:ss.000Z when t lies in
\* the years 0 to 9999 and with the year as a sign and six digits
\* otherwise; for an integer of larger magnitude it throws a RangeError.
C12_IsoWithinRange ==
    AfterAnyUnixTimeToIso
        => IF InTimeValueRange(unixTime)
           THEN /\ iso.kind = "return"
                /\ iso.value[Len(iso.value)] = "Z"
                /\ IF InFourDigitYears(unixTime)
                   THEN FourDigitYearShape(iso.value)
                   ELSE SixDigitYearShape(iso.value)
           ELSE /\ iso.kind = "throw"
                /\ iso.what = "RangeError"

\* the first second of the year 10000
C12_Witness ==
    /\ AfterUnixTimeToIso
    /\ unixTime = SecondsOf(2932897, 0)
    /\ Cat(iso.value) = "+010000-01-01T00:00:00.000Z"

\* C13: with the designator 'Z' or +HH:MM / -HH:MM held fixed and the result
\* in seconds, dateToUnixTime of the calendar successor of c by one second is
\* dateToUnixTime(c) + 1, across every carry; and 2024-02-29T00:00:00Z gives
\* 1709164800.
C13_SuccessorIsOneSecondLater ==
    (/\ AfterDateToUnixTime /\ RealDate(input)
     /\ (input.timezone = TzZ \/ FixedOffset(input.timezone))
     /\ input.useMilliseconds # "true")
        => /\ result.kind = "return"
           /\ Of(NextSecond(input)).kind = "return"
           /\ Of(NextSecond(input)).value = Add(result.value, NumOf(1))
           /\ (CivilOf(input) = [year |-> 2024, month |-> 2, day |-> 29,
                                 hour |-> 0, minute |-> 0, second |-> 0]
                /\ input.timezone = TzZ)
                 => result.value = NumOf(1709164800)

\* the instant d seconds before t
SecondsBefore(t, d) == Num(t.hi, t.lo - d * 1000)

\* C14: for a zone the host recognizes, with T0 = UTC(c), dateToUnixTime
\* returns T0 + (T0 - T1), which is T0 minus the zone's UTC offset at T0;
\* and when the zone's offset at the returned instant equals its offset at
\* T0, the zone shows the returned instant as c.
C14_SingleSampleAtT0 ==
    (/\ AfterDateToUnixTime /\ InRange(input)
     /\ input.timezone \in RecognizedZones)
        => /\ result.kind = "return"
           /\ result.value =
                InUnit(SecondsBefore(UTCOf(input),
                                     OffsetAt(input.timezone, UTCOf(input))))
           /\ (/\ RealDate(input)
               /\ OffsetAt(input.timezone, ResultMs)
                    = OffsetAt(input.timezone, UTCOf(input)))
                 => Displays(input.timezone, ResultMs) = CivilOf(input)

\* a day past the end of its month, carried into the next month
RolledOver(in) ==
    [in EXCEPT !.day = @ - DaysInMonth(in.year, in.month), !.month = @ + 1]

\* C15: with a day in 1..31 past the end of the month, dateToUnixTime with a
\* zone the host recognizes returns what it returns for the date carried
\* into the next month (April 31 as May 1), while with 'Z' or a designator
\* of the form [+-]DD:DD it fails.
C15_NamedZoneRollsOver ==
    (AfterDateToUnixTime /\ InRange(input) /\ ~RealDate(input))
        => /\ input.timezone \in RecognizedZones
                 => /\ result.kind = "return"
                    /\ result = Of(RolledOver(input))
           /\ IsUtcOffsetFormat(input.timezone)
                 => result.kind = "throw"

\* the designators of the model that are 'Z' or a sign, two digits, a colon
\* and two digits, listed by hand
OffsetSyntaxDesignators ==
    {TzZ, TzPlus0000, TzPlus0530, TzMinus0500, TzPlus9999}

\* C16: with all components in range, dateToUnixTime gives the outcome of the
\* Offset Resolver, never an invalid-timezone error, when the designator is
\* 'Z' or of the form [+-]DD:DD, and the outcome of the Named-Zone Resolver,
\* never an invalid-date error, for every other designator ('z', 'UTC',
\* '+5:30', '+0530'); with '+99:99' it fails with 'Invalid date: <composed>'.
C16_SyntacticDispatch ==
    (AfterDateToUnixTime /\ InRange(input))
        => /\ IF input.timezone \in OffsetSyntaxDesignators
              THEN /\ result = handleUtcOffset(input.year, input.month, input.day,
                                               input.hour, input.minute, input.second,
                                               input.timezone, input.useMilliseconds)
                   /\ result.what # "Invalid timezone"
              ELSE /\ result = handleIanaTimezone(input.year, input.month, input.day,
                                                  input.hour, input.minute, input.second,
                                                  input.timezone, input.useMilliseconds)
                   /\ result.what # "Invalid date"
           /\ input.timezone = TzPlus9999
                 => /\ result.kind = "throw"
                    /\ result.message = "Invalid date: " \o ComposedText(input)

C16_Witness ==
    /\ AfterDateToUnixTime /\ InRange(input)
    /\ input.timezone = TzPlus9999
    /\ result.message = "Invalid date: 2024-12-31T23:59:59+99:99"
====
